---------------------------- MODULE Spec2Model ----------------------------
(***************************************************************************)
(* A model of list/crates/app/src/story_workspace.rs: the StoryWorkspace   *)
(* view (its construction, its colour-picker subscription and its render)  *)
(* and the two entry points that open its window, new_local and open_new.  *)
(*                                                                         *)
(* An Option<T> of the source is a sequence of length at most one: None is *)
(* << >> and Some(x) is << x >>.                                           *)
(***************************************************************************)
EXTENDS Integers, Sequences, FiniteSets, TLC

VARIABLES
    theme,          \* the global Theme (cx.global::<Theme>())
    events,         \* ColorPickerEvents emitted and not yet delivered
    last_event,     \* the event the subscription's callback last ran on, if any
    refresh,        \* cx.refresh() was called and no frame was drawn since
    active_modal,   \* Root.active_modal: Option of a builder
    active_drawer,  \* Root.active_drawer: Option of a builder
    notification,   \* Root.notification: the notifications its list holds
    rendered,       \* the children of the last frame StoryWorkspace::render built
    entry,          \* the entry point the caller used: new_local or open_new
    local_result,   \* what the Task of new_local resolved to
    open_result,    \* what the Task of open_new resolved to
    app,            \* "running", or "panicked" once an expect() failed
    quit,           \* cx.quit() was called
    window,         \* "none", "open" or "closed"
    activated,      \* cx.activate_window() was called
    title,          \* the window's title
    release_hook,   \* the on_release callback is installed on the Root
    open_calls,     \* calls of cx.open_window
    init_calls,     \* calls of the init callback of open_new
    alive,          \* the views (entities) not yet released
    handles         \* the view handles held: who holds which kind of handle to whom

themeVars == << theme, events, last_event, refresh >>
overlayVars == << active_modal, active_drawer, notification, rendered >>
openVars == << entry, local_result, open_result, app, quit, window, activated,
               title, release_hook, open_calls, init_calls >>
ownVars == << alive, handles >>
vars == << themeVars, overlayVars, openVars, ownVars >>

None == << >>
Some(x) == << x >>

(***************************************************************************)
(* Bounds of the model.                                                    *)
(***************************************************************************)
ColorMax == 100      \* a colour is a lightness in 0 .. ColorMax
MaxEvents == 1       \* events in flight
MaxBuilders == 2     \* distinct overlay builders (contents)
MaxNotifications == 1 \* notifications in the list

InputColors == { 0, ColorMax \div 2, ColorMax }   \* black, a mid grey, white
Builders == 1 .. MaxBuilders

(***************************************************************************)
(* Colorize::lighten and Colorize::darken (ui::theme): linear              *)
(* interpolation toward white, resp. black, by pct percent.                *)
(***************************************************************************)
lighten(c, pct) == c + ((ColorMax - c) * pct) \div 100
darken(c, pct) == c - (c * pct) \div 100

Factor == 10         \* the 0.1 of lines 106 and 107, in percent

(***************************************************************************)
(* The Theme.  Of its many colours the file writes primary, primary_hover  *)
(* and primary_active and reads background and foreground; background      *)
(* stands for every field the file never writes.                           *)
(***************************************************************************)
Themes == [ background : InputColors, primary : InputColors,
            primary_hover : InputColors, primary_active : InputColors ]

ColorPickerEvents == { None } \cup { Some(c) : c \in InputColors }

InitTheme ==
    /\ theme \in Themes
    /\ events = << >>
    /\ last_event = None
    /\ refresh = FALSE

(* The colour picker emits Change(color); gpui queues the event.           *)
Emit(color) ==
    /\ app = "running" /\ window = "open"
    /\ Len(events) < MaxEvents
    /\ events' = Append(events, color)
    /\ UNCHANGED << theme, last_event, refresh, overlayVars, openVars, ownVars >>

(* The hover and active colours derived from the primary colour the Theme  *)
(* held before the assignment instead of from the new colour.              *)
SetPrimaryFromPrevious(t, color) ==
    [ t EXCEPT !.primary = color,
               !.primary_hover = lighten(t.primary, Factor),
               !.primary_active = darken(t.primary, Factor) ]

(* Lines 104-108: the body of `if let Some(color) = color`.                *)
SetPrimary(t, color) ==
    [ t EXCEPT !.primary = color,
               !.primary_hover = lighten(color, Factor),
               !.primary_active = darken(color, Factor) ]

(* The callback with cx.refresh() outside the `if let`.                     *)
OnColorPickerEventAlwaysRefresh ==
    /\ app = "running" /\ "workspace" \in alive
    /\ events # << >>
    /\ LET color == Head(events) IN
         IF color # None
         THEN theme' = SetPrimary(theme, color[1])
         ELSE theme' = theme
    /\ refresh' = TRUE
    /\ events' = Tail(events)
    /\ last_event' = Some(Head(events))
    /\ UNCHANGED << overlayVars, openVars, ownVars >>

(* Lines 101-111: the subscription's callback, run on the next event.      *)
OnColorPickerEvent ==
    /\ app = "running" /\ "workspace" \in alive
    /\ events # << >>
    /\ LET color == Head(events) IN
         IF color # None
         THEN /\ theme' = SetPrimary(theme, color[1])
              /\ refresh' = TRUE
         ELSE UNCHANGED << theme, refresh >>
    /\ events' = Tail(events)
    /\ last_event' = Some(Head(events))
    /\ UNCHANGED << overlayVars, openVars, ownVars >>

(* Lines 38-41: the window-appearance observer.  Theme::sync_system_appearance *)
(* lives outside this file and may replace the global Theme as a whole.     *)
ObserveWindowAppearance ==
    /\ app = "running" /\ "workspace" \in alive
    /\ theme' \in Themes
    /\ refresh' \in { refresh, TRUE }
    /\ UNCHANGED << events, last_event, overlayVars, openVars, ownVars >>

(***************************************************************************)
(* The overlay slots of Root and StoryWorkspace::render.  A builder is     *)
(* known by its number, and the element it builds by the same number.      *)
(* Styling (size, flex, colours) is left out of the frame: rendered holds  *)
(* the children of the root div, in order.                                 *)
(***************************************************************************)
Element(kind, content) == [ kind |-> kind, content |-> content ]

TitleBarElement == Element("title_bar", 0)
DockAreaElement == Element("dock_area", 0)

(* The drawer rendered whether or not a modal is active.                    *)
DrawerChildrenIgnoringModal(modal, drawer) ==
    IF drawer # None THEN << Element("drawer", drawer[1]) >> ELSE << >>

(* Lines 204-209: .when(!has_active_modal, |this| this.when_some(active_drawer, ..)) *)
DrawerChildren(modal, drawer) ==
    IF modal = None /\ drawer # None
    THEN << Element("drawer", drawer[1]) >>
    ELSE << >>

(* Lines 210-213: .when_some(active_modal, ..)                              *)
ModalChildren(modal) ==
    IF modal # None THEN << Element("modal", modal[1]) >> ELSE << >>

(* The notification layer added before the overlays instead of last.       *)
RenderChildrenNotificationFirst(modal, drawer, notes) ==
    << TitleBarElement, DockAreaElement, Element("notification", notes) >>
        \o DrawerChildren(modal, drawer)
        \o ModalChildren(modal)

(* Lines 184-214: the children of the div, in the order of the .child calls. *)
RenderChildren(modal, drawer, notes) ==
    << TitleBarElement, DockAreaElement >>
        \o DrawerChildren(modal, drawer)
        \o ModalChildren(modal)
        \o << Element("notification", notes) >>

InitOverlay ==
    /\ active_modal = None
    /\ active_drawer = None
    /\ notification = 0
    /\ rendered = << >>

(* render taking the drawer out of its slot (take() for clone()) when a     *)
(* modal hides it.                                                          *)
RenderTakingDrawer ==
    /\ app = "running" /\ window = "open" /\ "workspace" \in alive
    /\ rendered' = RenderChildren(active_modal, active_drawer, notification)
    /\ active_drawer' = IF active_modal # None THEN None ELSE active_drawer
    /\ refresh' = FALSE
    /\ UNCHANGED << theme, events, last_event, active_modal, notification,
                    openVars, ownVars >>

(* Lines 178-215: render reads clones of the three slots and builds a frame; *)
(* drawing the frame serves the pending refresh.                            *)
Render ==
    /\ app = "running" /\ window = "open" /\ "workspace" \in alive
    /\ rendered' = RenderChildren(active_modal, active_drawer, notification)
    /\ refresh' = FALSE
    /\ UNCHANGED << theme, events, last_event, active_modal, active_drawer,
                    notification, openVars, ownVars >>

(* The slots are written by the application root, on user interaction.      *)
SetModal(b) ==
    /\ app = "running" /\ window = "open"
    /\ active_modal' = Some(b)
    /\ UNCHANGED << themeVars, active_drawer, notification, rendered, openVars, ownVars >>

ClearModal ==
    /\ app = "running" /\ window = "open"
    /\ active_modal # None
    /\ active_modal' = None
    /\ UNCHANGED << themeVars, active_drawer, notification, rendered, openVars, ownVars >>

SetDrawer(b) ==
    /\ app = "running" /\ window = "open"
    /\ active_drawer' = Some(b)
    /\ UNCHANGED << themeVars, active_modal, notification, rendered, openVars, ownVars >>

ClearDrawer ==
    /\ app = "running" /\ window = "open"
    /\ active_drawer # None
    /\ active_drawer' = None
    /\ UNCHANGED << themeVars, active_modal, notification, rendered, openVars, ownVars >>

PushNotification ==
    /\ app = "running" /\ window = "open"
    /\ notification < MaxNotifications
    /\ notification' = notification + 1
    /\ UNCHANGED << themeVars, active_modal, active_drawer, rendered, openVars, ownVars >>

ClearNotifications ==
    /\ app = "running" /\ window = "open"
    /\ notification > 0
    /\ notification' = 0
    /\ UNCHANGED << themeVars, active_modal, active_drawer, rendered, openVars, ownVars >>

(***************************************************************************)
(* The views StoryWorkspace::new creates and the handles it hands out.  A   *)
(* handle is [holder, kind, to]: holder keeps a "strong" (View) or "weak"   *)
(* (WeakView) handle to the view `to`.  A constructor keeps the handles it  *)
(* is given; the local handles of new are dropped when it returns.          *)
(***************************************************************************)
Handle(holder, kind, to) == [ holder |-> holder, kind |-> kind, to |-> to ]

TabPanels == { "left_tab_panel", "center_tab_panel", "right_tab_panel" }

(* Lines 48, 53, 58: the vertical StackPanel created inside each tab panel. *)
NestedStack(tab) ==
    CASE tab = "left_tab_panel" -> "left_stack"
      [] tab = "center_tab_panel" -> "center_stack"
      [] tab = "right_tab_panel" -> "right_stack"

Entities ==
    { "root", "workspace", "dock_area", "stack_panel", "list_story" }
        \cup TabPanels \cup { NestedStack(t) : t \in TabPanels }

(* The back-reference as an owning clone of the DockArea's handle.          *)
strong_dock_area(holder) == Handle(holder, "strong", "dock_area")

(* Line 45: let weak_dock_area = dock_area.downgrade();                     *)
weak_dock_area(holder) == Handle(holder, "weak", "dock_area")

(* Lines 43-115: the handles that outlive StoryWorkspace::new.              *)
NewHandles ==
    { Handle("dock_area", "strong", "stack_panel") }                  \* line 44
        \cup { Handle(t, "strong", NestedStack(t)) : t \in TabPanels } \* 47-60
        \cup { weak_dock_area(t) : t \in TabPanels }                   \* 49, 54, 59
        \cup { Handle("stack_panel", "strong", t) : t \in TabPanels }  \* 62-77
        \cup { weak_dock_area("stack_panel") }                         \* 66, 70, 74
        \cup { Handle("left_tab_panel", "strong", "list_story") }      \* 79-88
        \cup { Handle("workspace", "strong", "dock_area") }            \* line 115

(* Lines 140-143: the window keeps the Root view, the Root the workspace.   *)
WindowHandles ==
    { Handle("window", "strong", "root"), Handle("root", "strong", "workspace") }

InitOpen ==
    /\ entry = "none"
    /\ local_result = "none"
    /\ open_result = "none"
    /\ app = "running"
    /\ quit = FALSE
    /\ window = "none"
    /\ activated = FALSE
    /\ title = ""
    /\ release_hook = FALSE
    /\ open_calls = 0
    /\ init_calls = 0
    /\ alive = {}
    /\ handles = {}

(* Lines 118-124: the caller calls new_local, which spawns the task.        *)
CallNewLocal ==
    /\ app = "running" /\ entry = "none"
    /\ entry' = "new_local"
    /\ local_result' = "pending"
    /\ UNCHANGED << themeVars, overlayVars, open_result, app, quit, window,
                    activated, title, release_hook, open_calls, init_calls, ownVars >>

(* Lines 162-169: the caller calls open_new, which calls new_local and      *)
(* spawns the task that awaits it.                                          *)
CallOpenNew ==
    /\ app = "running" /\ entry = "none"
    /\ entry' = "open_new"
    /\ local_result' = "pending"
    /\ open_result' = "pending"
    /\ UNCHANGED << themeVars, overlayVars, app, quit, window,
                    activated, title, release_hook, open_calls, init_calls, ownVars >>

(* The task with the failure of window.update dropped (.ok() for .expect()): *)
(* it resolves to Ok(window) on a window it never configured.               *)
NewLocalTaskIgnoringUpdateFailure(opened, updated) ==
    /\ app = "running" /\ local_result = "pending"
    /\ open_calls' = open_calls + 1
    /\ IF ~opened
       THEN /\ local_result' = "Err"
            /\ UNCHANGED << window, activated, title, release_hook, ownVars >>
       ELSE /\ window' = "open"
            /\ alive' = Entities
            /\ handles' = NewHandles \cup WindowHandles
            /\ activated' = updated
            /\ title' = IF updated THEN "GPUI App" ELSE title
            /\ release_hook' = updated
            /\ local_result' = "Ok"
    /\ UNCHANGED << themeVars, overlayVars, entry, open_result, app, quit, init_calls >>

(* Lines 124-158: the task of new_local, which has no await: it runs in one *)
(* step.  opened and updated are the outcomes of cx.open_window and of      *)
(* window.update.                                                           *)
NewLocalTask(opened, updated) ==
    /\ app = "running" /\ local_result = "pending"
    /\ open_calls' = open_calls + 1
    /\ IF ~opened
       THEN /\ local_result' = "Err"                                  \* the ? of line 143
            /\ UNCHANGED << app, window, activated, title, release_hook, ownVars >>
       ELSE /\ window' = "open"
            /\ alive' = Entities
            /\ handles' = NewHandles \cup WindowHandles
            /\ IF updated
               THEN /\ activated' = TRUE                              \* line 147
                    /\ title' = "GPUI App"                            \* line 148
                    /\ release_hook' = TRUE                           \* lines 149-153
                    /\ local_result' = "Ok"                           \* line 157
                    /\ app' = app
               ELSE /\ app' = "panicked"                              \* line 155
                    /\ UNCHANGED << local_result, activated, title, release_hook >>
    /\ UNCHANGED << themeVars, overlayVars, entry, open_result, quit, init_calls >>

(* The task running init whatever new_local's task resolved to.             *)
OpenNewTaskInitAlways(updated) ==
    /\ app = "running" /\ open_result = "pending"
    /\ local_result \in { "Ok", "Err" }
    /\ init_calls' = init_calls + 1
    /\ open_result' = "Unit"
    /\ UNCHANGED << themeVars, overlayVars, entry, local_result, app, quit, window,
                    activated, title, release_hook, open_calls, ownVars >>

(* Lines 169-174: the task of open_new resumes once new_local's resolved.   *)
(* updated is the outcome of root.update, which fails on a closed window.   *)
OpenNewTask(updated) ==
    /\ app = "running" /\ open_result = "pending"
    /\ local_result \in { "Ok", "Err" }
    /\ window # "open" => ~updated
    /\ IF local_result = "Ok"                                         \* task.await.ok()
       THEN IF updated
            THEN /\ init_calls' = init_calls + 1                      \* line 171
                 /\ open_result' = "Unit"
                 /\ app' = app
            ELSE /\ app' = "panicked"                                 \* line 172
                 /\ UNCHANGED << init_calls, open_result >>
       ELSE /\ open_result' = "Unit"
            /\ UNCHANGED << init_calls, app >>
    /\ UNCHANGED << themeVars, overlayVars, entry, local_result, quit, window,
                    activated, title, release_hook, open_calls, ownVars >>

(* The user closes the window: the window lets go of its Root.              *)
CloseWindow ==
    /\ app = "running" /\ window = "open"
    /\ window' = "closed"
    /\ handles' = handles \ { Handle("window", "strong", "root") }
    /\ UNCHANGED << themeVars, overlayVars, entry, local_result, open_result, app,
                    quit, activated, title, release_hook, open_calls, init_calls, alive >>

StrongHolders(e) == { h \in handles : h.kind = "strong" /\ h.to = e }

(* A view no strong handle points to is released, and with it the handles   *)
(* it held; lines 149-152: releasing the Root runs the hook, which quits.   *)
ReleaseDropped(e) ==
    /\ app = "running" /\ e \in alive
    /\ StrongHolders(e) = {}
    /\ alive' = alive \ { e }
    /\ handles' = { h \in handles : h.holder # e }
    /\ quit' = (quit \/ (e = "root" /\ release_hook))
    /\ UNCHANGED << themeVars, overlayVars, entry, local_result, open_result, app,
                    window, activated, title, release_hook, open_calls, init_calls >>

(***************************************************************************)
(* Specifications.  SpecOpen is the opening and the closing of the window; *)
(* SpecTheme and SpecRender start from the window new_local opened and     *)
(* configured, and follow the Theme and the overlay slots.                 *)
(***************************************************************************)
WindowLive ==
    /\ entry = "new_local"
    /\ local_result = "Ok"
    /\ open_result = "none"
    /\ app = "running"
    /\ quit = FALSE
    /\ window = "open"
    /\ activated = TRUE
    /\ title = "GPUI App"
    /\ release_hook = TRUE
    /\ open_calls = 1
    /\ init_calls = 0
    /\ alive = Entities
    /\ handles = NewHandles \cup WindowHandles

ThemeIdle ==
    /\ theme = CHOOSE t \in Themes : TRUE
    /\ events = << >>
    /\ last_event = None
    /\ refresh = FALSE

InitOpenSpec == InitOpen /\ ThemeIdle /\ InitOverlay

NextOpen ==
    \/ CallNewLocal
    \/ CallOpenNew
    \/ \E opened, updated \in BOOLEAN : NewLocalTask(opened, updated)
    \/ \E updated \in BOOLEAN : OpenNewTask(updated)
    \/ CloseWindow
    \/ \E e \in Entities : ReleaseDropped(e)

SpecOpen == InitOpenSpec /\ [][NextOpen]_vars

InitThemeSpec == WindowLive /\ InitTheme /\ InitOverlay

NextTheme ==
    \/ \E color \in ColorPickerEvents : Emit(color)
    \/ OnColorPickerEvent
    \/ ObserveWindowAppearance
    \/ Render

SpecTheme == InitThemeSpec /\ [][NextTheme]_vars

InitRenderSpec == WindowLive /\ ThemeIdle /\ InitOverlay

NextRender ==
    \/ \E b \in Builders : SetModal(b)
    \/ ClearModal
    \/ \E b \in Builders : SetDrawer(b)
    \/ ClearDrawer
    \/ PushNotification
    \/ ClearNotifications
    \/ Render

SpecRender == InitRenderSpec /\ [][NextRender]_vars

(***************************************************************************)
(* Properties of StoryWorkspace::render.                                   *)
(***************************************************************************)
Kinds(frame) == { frame[i].kind : i \in 1 .. Len(frame) }

(* The content of the frame's children of one kind, as a set.              *)
Shown(frame, kind) ==
    { frame[i].content : i \in { j \in 1 .. Len(frame) : frame[j].kind = kind } }

SlotContent(slot) == IF slot = None THEN {} ELSE { slot[1] }

(* C1: in every render step, whatever the three slots hold, the frame has  *)
(* the drawer's element iff the drawer slot is set and the modal slot is   *)
(* empty, and the modal's element iff the modal slot is set; an unset slot *)
(* adds no child and the step is no failure.                               *)
C1_OverlayPriority ==
    [][ Render =>
          /\ Shown(rendered', "drawer") =
                 (IF active_modal = None THEN SlotContent(active_drawer) ELSE {})
          /\ Shown(rendered', "modal") = SlotContent(active_modal)
          /\ Len(rendered') = 3 + Cardinality(Shown(rendered', "drawer"))
                                + Cardinality(Shown(rendered', "modal"))
          /\ app' = "running" ]_vars

(* A frame drawn with both slots set: the modal is in it, the drawer is not. *)
C1_Witness ==
    /\ active_modal # None /\ active_drawer # None
    /\ Len(rendered) = 4
    /\ rendered[3] = Element("modal", active_modal[1])

(* C2: render never writes the drawer slot, nor does setting or clearing    *)
(* the modal; so a render with the modal slot empty shows the drawer the    *)
(* slot held all along.                                                     *)
C2_DrawerSurvivesModal ==
    [][ /\ (Render \/ ClearModal \/ \E b \in Builders : SetModal(b))
              => active_drawer' = active_drawer
        /\ (Render /\ active_modal = None)
              => Shown(rendered', "drawer") = SlotContent(active_drawer) ]_vars

(* The modal was just cleared: the last frame hid the drawer behind the     *)
(* modal, and the drawer slot still holds its builder.                      *)
C2_Witness ==
    /\ active_modal = None /\ active_drawer # None
    /\ "modal" \in Kinds(rendered) /\ "drawer" \notin Kinds(rendered)

Rank(kind) ==
    CASE kind = "title_bar" -> 1
      [] kind = "dock_area" -> 2
      [] kind = "drawer" -> 3
      [] kind = "modal" -> 4
      [] kind = "notification" -> 5

(* C3: the children of every frame are in the order title bar, dock area,   *)
(* drawer, modal, notification layer; the title bar, the dock area and the  *)
(* notification layer are always there, the notification layer last.        *)
C3_ChildOrder ==
    rendered # << >> =>
        /\ rendered[1].kind = "title_bar"
        /\ rendered[2].kind = "dock_area"
        /\ rendered[Len(rendered)].kind = "notification"
        /\ \A i, j \in 1 .. Len(rendered) :
               i < j => Rank(rendered[i].kind) < Rank(rendered[j].kind)

(* A frame with the drawer between the dock area and the notification layer. *)
C3_Witness ==
    /\ Len(rendered) = 4
    /\ rendered[3].kind = "drawer"
    /\ rendered[4].kind = "notification"

(***************************************************************************)
(* Properties of the ColorPickerEvent subscription.                        *)
(***************************************************************************)
Derived(t, c) ==
    /\ t.primary = c
    /\ t.primary_hover = lighten(c, Factor)
    /\ t.primary_active = darken(c, Factor)

(* C4: for every colour c, a callback step on Change(Some(c)) ends with     *)
(* primary = c, primary_hover = lighten(c, 0.1), primary_active =           *)
(* darken(c, 0.1), whatever the Theme was before; and when the Theme        *)
(* already is the outcome of handling c, handling c again changes nothing.  *)
C4_SetPrimary ==
    [][ \A c \in InputColors :
          (OnColorPickerEvent /\ Head(events) = Some(c)) =>
              /\ Derived(theme', c)
              /\ (Derived(theme, c) => theme' = theme) ]_vars

(* The callback last ran on Some(c) and the Theme holds what it derived     *)
(* from c (a hover colour no picked or system colour equals).               *)
C4_Witness ==
    /\ last_event # None /\ last_event[1] # None
    /\ Derived(theme, last_event[1][1])
    /\ theme.primary_hover \notin InputColors

(* C6: a callback step on Change(None) leaves the Theme as it was and       *)
(* requests no refresh; a step on Change(Some(c)) requests one.             *)
C6_NoneIsNoChange ==
    [][ OnColorPickerEvent =>
          IF Head(events) = None
          THEN theme' = theme /\ refresh' = refresh
          ELSE refresh' = TRUE ]_vars

(* The callback last ran on Change(None) and no refresh is pending.         *)
C6_Witness ==
    /\ last_event = Some(None)
    /\ refresh = FALSE

(***************************************************************************)
(* Properties of new_local and open_new.                                   *)
(***************************************************************************)
Configured == activated /\ title = "GPUI App" /\ release_hook

(* C7: once cx.open_window has failed, no window is live, activated or      *)
(* titled, no view was built, init has not run, open_window was called      *)
(* once, and the caller of the entry point gets the error: new_local's Task *)
(* resolves to Err, and so does what open_new hands back.                   *)
C7_CreationFailureSurfaced ==
    local_result = "Err" =>
        /\ window = "none" /\ ~activated /\ title = "" /\ ~release_hook
        /\ alive = {} /\ handles = {}
        /\ init_calls = 0
        /\ open_calls = 1
        /\ (entry = "open_new" /\ open_result # "pending") => open_result = "Err"

(* C8: a failure of window.update ends the task in a panic: the task        *)
(* resolves to Ok(window) only for a window that was activated, titled and  *)
(* given its release hook, and a window left unconfigured means the task    *)
(* panicked and resolved to nothing.                                        *)
C8_ConfigurationFailureIsFatal ==
    /\ local_result = "Ok" => (window # "none" /\ Configured)
    /\ (window # "none" /\ ~Configured) =>
           (app = "panicked" /\ local_result = "pending" /\ init_calls = 0)

(* window.update failed on the window just opened.                          *)
C8_Witness ==
    /\ window = "open" /\ ~activated
    /\ app = "panicked"

(* C10: in open_new, init runs at most once and only once new_local's task  *)
(* resolved to Ok, so on a window opened, activated, titled and hooked; and *)
(* when that task resolved to Err, init never runs and the task of open_new *)
(* resolves normally: it has, or its next step is enabled, and nothing      *)
(* panicked.                                                                *)
C10_InitAfterOpen ==
    /\ init_calls <= 1
    /\ init_calls > 0 =>
           /\ entry = "open_new" /\ local_result = "Ok"
           /\ window # "none" /\ Configured
    /\ (entry = "open_new" /\ local_result = "Err") =>
           /\ init_calls = 0
           /\ app = "running"
           /\ open_result = "Unit" \/ ENABLED (\E updated \in BOOLEAN : OpenNewTask(updated))

(* init ran, and the task of open_new resolved.                             *)
C10_Witness ==
    /\ init_calls = 1
    /\ open_result = "Unit"
    /\ local_result = "Ok"

(***************************************************************************)
(* Properties of the ownership graph StoryWorkspace::new builds.           *)
(***************************************************************************)
Owned(e) == { h.to : h \in { g \in handles : g.holder = e /\ g.kind = "strong" } }

RECURSIVE OwnedWithin(_, _)
(* The views reached from the set S along at most n owning handles.        *)
OwnedWithin(S, n) ==
    IF n = 0 THEN S
    ELSE OwnedWithin(S \cup UNION { Owned(e) : e \in S }, n - 1)

OwnsTransitively(e) == OwnedWithin(Owned(e), Cardinality(Entities))

Releasable == { e \in alive : StrongHolders(e) = {} }

(* C9: no view owns itself through a chain of owning handles; while they    *)
(* live the workspace owns the DockArea, the DockArea the root stack, the   *)
(* root stack the three tab panels and each tab panel its nested stack;     *)
(* every handle a panel holds to the DockArea is weak; a DockArea whose     *)
(* workspace is gone has no owner left, whatever weak handles point to it;  *)
(* and once the window is closed and nothing is left to release, no view    *)
(* is alive.                                                                *)
C9_NoOwningCycle ==
    /\ \A e \in Entities : e \notin OwnsTransitively(e)
    /\ "workspace" \in alive => "dock_area" \in Owned("workspace")
    /\ "dock_area" \in alive => "stack_panel" \in Owned("dock_area")
    /\ "stack_panel" \in alive => TabPanels \subseteq Owned("stack_panel")
    /\ \A t \in TabPanels : t \in alive => NestedStack(t) \in Owned(t)
    /\ \A h \in handles :
           (h.to = "dock_area" /\ h.holder \in TabPanels \cup { "stack_panel" })
               => h.kind = "weak"
    /\ ("dock_area" \in alive /\ "workspace" \notin alive) => "dock_area" \in Releasable
    /\ (window = "closed" /\ Releasable = {}) => alive = {}

(* The workspace and the DockArea are released while panels still hold      *)
(* their weak handles to the DockArea.                                      *)
C9_Witness ==
    /\ window = "closed"
    /\ "workspace" \notin alive /\ "dock_area" \notin alive
    /\ \E h \in handles : h.kind = "weak" /\ h.to = "dock_area" /\ h.holder \in alive

=============================================================================
